---- MODULE Spec2Model ----
(***************************************************************************)
(* A model of ralph_status.py, the Ralph workspace spec checkup: the       *)
(* command runner run_cmd, the probes, spec discovery scan_specs and the   *)
(* report builder format_report.                                           *)
(*                                                                         *)
(* A Python str is modelled as a sequence of tokens: a token is either a   *)
(* whitespace character or a maximal run of non-whitespace characters.     *)
(* strip() and split() are computed on that sequence.                      *)
(***************************************************************************)
EXTENDS Integers, Sequences, FiniteSets, TLC

VARIABLES
    \* run_cmd: where the call is, what the command did, the value returned
    cmd_pc, outcome, cmd_result,
    \* scan_specs: the workspace tree, where the scan is, the paths rglob has
    \* yielded, the "specs" path in hand, the entries iterdir listed that are
    \* still to inspect, the list 'specs', the value returned
    fs, scan_pc, yielded, item, listing, found, scan_result,
    \* get_git_info: where the call is, its argument, the directories that
    \* hold a ".git" entry, the local repo_root, the commands issued so far
    \* (with their cwd), what the "git log" of line 71 did, the dict 'info'
    git_pc, spec_path, git_dirs, repo_root, issued, log_run, info,
    \* format_report: where the call is, its arguments, the index of the spec
    \* in hand, the clock when the header is built and the list 'lines' (of
    \* this call, and of a second call made at nowB), the progress file of
    \* the spec in hand and the local ralph_status, the calls made of
    \* check_docker_status and of check_system_deps, the function an
    \* exception was raised in
    pc, specs, verbose, i, now, nowB, lines, linesB, progress_file,
    ralph_status, docker_checks, deps_checks, raised_in

cmdVars == <<cmd_pc, outcome, cmd_result>>
scanVars == <<fs, scan_pc, yielded, item, listing, found, scan_result>>
gitVars == <<git_pc, spec_path, git_dirs, repo_root, issued, log_run, info>>
repVars == <<pc, specs, verbose, i, now, nowB, lines, linesB, progress_file,
             ralph_status, docker_checks, deps_checks, raised_in>>
vars == <<cmdVars, scanVars, gitVars, repVars>>

----------------------------------------------------------------------------
(* Bounds *)

\* longest standard output, in tokens, of a command given to run_cmd alone
MaxOut == 3
\* deepest spec directory given to get_git_info, in path components
MaxDepth == 4
\* most spec directories given to format_report
MaxSpecs == 2
\* the latest second, counted from the first, at which format_report is
\* called
MaxTick == 1

----------------------------------------------------------------------------
(* Python str as token sequences *)

Whitespace == {" ", "\n", "\t"}

RECURSIVE LStrip(_)
LStrip(s) == IF s # <<>> /\ Head(s) \in Whitespace THEN LStrip(Tail(s)) ELSE s

RECURSIVE RStrip(_)
RStrip(s) ==
    IF s # <<>> /\ s[Len(s)] \in Whitespace
    THEN RStrip(SubSeq(s, 1, Len(s) - 1))
    ELSE s

\* str.strip()
Strip(s) == RStrip(LStrip(s))

\* sequences over S of length at most n
SeqsUpTo(S, n) == UNION {[1..k -> S] : k \in 0..n}

----------------------------------------------------------------------------
(* run_cmd *)

\* What subprocess.run does with the command: the shell ran it to the end
\* (with its exit status and standard output), it was still running at the
\* timeout, or starting it raised (err is str(e)).
Completed(exit, out) == [kind |-> "completed", exit |-> exit, stdout |-> out, err |-> <<>>]
TimedOut == [kind |-> "timeout", exit |-> 0, stdout |-> <<>>, err |-> <<>>]
OsError(e) == [kind |-> "oserror", exit |-> 0, stdout |-> <<>>, err |-> e]

TimeoutSentinel == <<"[timeout]">>

\* f"[error: {str(e)}]"
ErrorSentinel(e) ==
    IF e = <<>>
    THEN <<"[error:", " ", "]">>
    ELSE <<"[error:", " ">> \o SubSeq(e, 1, Len(e) - 1) \o <<e[Len(e)] \o "]">>

\* run_cmd with check=True: a non-zero exit status raises CalledProcessError
RunCmdChecked(o) ==
    CASE o.kind = "timeout" -> TimeoutSentinel
      [] o.kind = "oserror" -> ErrorSentinel(o.err)
      [] OTHER -> IF o.exit # 0 THEN ErrorSentinel(<<"exit">>) ELSE Strip(o.stdout)

RunCmd(o) ==
    CASE o.kind = "timeout" -> TimeoutSentinel
      [] o.kind = "oserror" -> ErrorSentinel(o.err)
      [] OTHER -> Strip(o.stdout)

CmdTokens == {" ", "\n", "ok", "[timeout]"}
ExitCodes == {0, 1, 127}
OsErrors == {<<>>, <<"ENOENT">>, <<"[Errno", " ", "2]">>}

CmdOutcomes ==
    {Completed(e, s) : e \in ExitCodes, s \in SeqsUpTo(CmdTokens, MaxOut)}
        \cup {TimedOut} \cup {OsError(e) : e \in OsErrors}

IdleCmd == cmd_pc = "idle" /\ outcome = TimedOut /\ cmd_result = <<>>

InitCmdCall == cmd_pc = "call" /\ outcome \in CmdOutcomes /\ cmd_result = <<>>

RunCmdCall ==
    /\ cmd_pc = "call"
    /\ cmd_result' = RunCmd(outcome)
    /\ cmd_pc' = "returned"
    /\ UNCHANGED <<outcome, scanVars, gitVars, repVars>>

----------------------------------------------------------------------------
(* scan_specs *)

\* The paths of the workspace tree, relative to the workspace root <<>>.
TreePaths ==
    { <<"specs">>,
      <<"specs", "a">>, <<"specs", "a", ".ralph">>,
      <<"specs", "specs">>, <<"specs", "specs", ".ralph">>,
      <<"a">>, <<"a", "specs">>,
      <<"a", "specs", "c">>, <<"a", "specs", "c", ".ralph">> }

Parent(p) == IF p = <<>> THEN p ELSE SubSeq(p, 1, Len(p) - 1)
Name(p) == p[Len(p)]

\* what is at path p in tree t: nothing, a regular file or a directory
Kind(t, p) ==
    IF p = <<>> THEN "dir" ELSE IF p \in TreePaths THEN t[p] ELSE "none"

ChildrenOf(t, p) == {c \in TreePaths : Parent(c) = p /\ t[c] # "none"}

\* an entry exists only inside a directory
Trees ==
    {t \in [TreePaths -> {"none", "file", "dir"}] :
        \A p \in TreePaths : t[p] # "none" => Kind(t, Parent(p)) = "dir"}

\* Path.is_dir(), which is False for a path that does not exist
IsDir(t, p) == Kind(t, p) = "dir"

\* Path.exists()
Exists(t, p) == Kind(t, p) # "none"

\* the marker test of line 128 with is_dir() in place of exists()
HasMarkerDir(t, p) == IsDir(t, p \o <<".ralph">>)

\* (spec_dir / ".ralph").exists()
HasMarker(t, p) == Exists(t, p \o <<".ralph">>)

\* The order of str on the names in use: "." < "a" < "c" < "s".
NameOrder == <<".ralph", "a", "c", "specs">>
NameRank(n) == CHOOSE k \in 1..Len(NameOrder) : NameOrder[k] = n

\* PurePosixPath.__lt__: the parts compared as lists of str
RECURSIVE PathLess(_, _)
PathLess(p, q) ==
    IF q = <<>> THEN FALSE
    ELSE IF p = <<>> THEN TRUE
    ELSE IF Head(p) # Head(q) THEN NameRank(Head(p)) < NameRank(Head(q))
    ELSE PathLess(Tail(p), Tail(q))

RECURSIVE Insert(_, _)
Insert(x, s) ==
    IF s = <<>> THEN <<x>>
    ELSE IF PathLess(x, Head(s)) THEN <<x>> \o s
    ELSE <<Head(s)>> \o Insert(x, Tail(s))

\* sorted(specs)
RECURSIVE Sorted(_)
Sorted(s) == IF s = <<>> THEN <<>> ELSE Insert(Head(s), Sorted(Tail(s)))

IdleScan ==
    /\ fs = [p \in TreePaths |-> "none"]
    /\ scan_pc = "idle"
    /\ yielded = {} /\ item = <<>> /\ listing = {} /\ found = <<>>
    /\ scan_result = <<>>

InitScan ==
    /\ fs \in Trees
    /\ scan_pc = "rglob"
    /\ yielded = {} /\ item = <<>> /\ listing = {} /\ found = <<>>
    /\ scan_result = <<>>

\* line 125: workspace.rglob("specs") yields, in the order of the directory
\* listings, a path named "specs" that is there when the walk reaches it.
RglobYield ==
    /\ scan_pc = "rglob"
    /\ \E p \in TreePaths \ yielded :
        /\ Name(p) = "specs" /\ Exists(fs, p)
        /\ item' = p
        /\ yielded' = yielded \cup {p}
    /\ scan_pc' = "is_dir"
    /\ UNCHANGED <<fs, listing, found, scan_result, cmdVars, gitVars, repVars>>

\* lines 125 and 131: the walk is over, return sorted(specs)
ScanReturn ==
    /\ scan_pc = "rglob"
    /\ ~ \E p \in TreePaths \ yielded : Name(p) = "specs" /\ Exists(fs, p)
    /\ scan_result' = Sorted(found)
    /\ scan_pc' = "done"
    /\ UNCHANGED <<fs, yielded, item, listing, found, cmdVars, gitVars, repVars>>

\* line 126: if item.is_dir()
ItemIsDir ==
    /\ scan_pc = "is_dir"
    /\ scan_pc' = IF IsDir(fs, item) THEN "iterdir" ELSE "rglob"
    /\ UNCHANGED <<fs, yielded, item, listing, found, scan_result, cmdVars, gitVars, repVars>>

\* line 127: item.iterdir() lists the directory, and raises FileNotFoundError
\* or NotADirectoryError when item is no directory any more; nothing in
\* scan_specs or main catches it.
ItemIterdir ==
    /\ scan_pc = "iterdir"
    /\ IF IsDir(fs, item)
       THEN listing' = ChildrenOf(fs, item) /\ scan_pc' = "inspect"
       ELSE listing' = listing /\ scan_pc' = "raised"
    /\ UNCHANGED <<fs, yielded, item, found, scan_result, cmdVars, gitVars, repVars>>

\* line 128: spec_dir.is_dir() and (spec_dir / ".ralph").exists(), both False
\* for a path that is gone; line 129 appends
InspectChild ==
    /\ scan_pc = "inspect"
    /\ \E c \in listing :
        /\ listing' = listing \ {c}
        /\ found' = IF IsDir(fs, c) /\ HasMarker(fs, c)
                    THEN Append(found, c) ELSE found
    /\ UNCHANGED <<fs, scan_pc, yielded, item, scan_result, cmdVars, gitVars, repVars>>

\* line 127: the listing is exhausted, back to the walk
IterdirDone ==
    /\ scan_pc = "inspect"
    /\ listing = {}
    /\ scan_pc' = "rglob"
    /\ UNCHANGED <<fs, yielded, item, listing, found, scan_result, cmdVars, gitVars, repVars>>

\* Another process removes an entry (unlink, or rmdir of an empty directory)
\* while scan_specs runs.
Delete ==
    /\ scan_pc \notin {"idle", "done", "raised"}
    /\ \E p \in TreePaths :
        /\ fs[p] # "none"
        /\ ChildrenOf(fs, p) = {}
        /\ fs' = [fs EXCEPT ![p] = "none"]
    /\ UNCHANGED <<scan_pc, yielded, item, listing, found, scan_result, cmdVars, gitVars, repVars>>

----------------------------------------------------------------------------
(* get_git_info *)

\* str.split('\n') on a token sequence: the list of lines
RECURSIVE SplitNl(_)
SplitNl(s) ==
    IF \A k \in 1..Len(s) : s[k] # "\n"
    THEN <<s>>
    ELSE LET k == CHOOSE j \in 1..Len(s) :
                    s[j] = "\n" /\ \A h \in 1..(j - 1) : s[h] # "\n"
         IN <<SubSeq(s, 1, k - 1)>> \o SplitNl(SubSeq(s, k + 1, Len(s)))

\* the -5 of "git log --oneline -5"
LogLimit == 5

\* the output of echo 'no commits'
NoCommits == <<"no", " ", "commits">>

CommitNames == <<"c1", "c2", "c3", "c4", "c5", "c6">>

\* the standard output of git log --oneline showing n commits
RECURSIVE CommitLines(_)
CommitLines(n) ==
    IF n = 0 THEN <<>> ELSE CommitLines(n - 1) \o <<CommitNames[n], "\n">>

\* The shell's cmd || echo 'no commits': the standard output of cmd, then
\* that of echo when cmd exited non-zero, and echo's exit status.
OrEchoNoCommits(o) ==
    IF o.kind = "completed" /\ o.exit # 0
    THEN Completed(0, o.stdout \o NoCommits \o <<"\n">>)
    ELSE o

\* lines 70-72: what run_cmd is given back by the shell for a git log that
\* did o
LogCommand(o) == OrEchoNoCommits(o)

\* what git log --oneline -5 can do: show up to LogLimit commits, fail with
\* nothing on standard output (no commit yet, a broken repository), run
\* into the timeout, or not start (cwd removed meanwhile)
GitLogRuns ==
    {Completed(0, CommitLines(n)) : n \in 0..LogLimit}
        \cup {Completed(128, <<>>), TimedOut, OsError(<<"ENOENT">>)}

BranchRuns == {Completed(0, <<"main", "\n">>), Completed(128, <<>>), TimedOut}

StatusRuns ==
    {Completed(0, <<>>), Completed(0, <<"M", " ", "f.py", "\n">>), TimedOut}

\* the three entries of info, from what each command did
BranchField(o) == RunCmd(o)
CommitsField(o) == SplitNl(RunCmd(LogCommand(o)))
StatusField(o) == RunCmd(o)

EmptyInfo == [set |-> FALSE, branch |-> <<>>, recent_commits |-> <<>>, status |-> <<>>]

\* the directories from p up to the filesystem root <<>>
Ancestors(p) == {SubSeq(p, 1, k) : k \in 0..Len(p)}

\* line 68 with the filesystem root left out
MarkerAtBelowRoot(G, p) == p # <<>> /\ p \in G

\* (repo_root / ".git").exists()
MarkerAt(G, p) == p \in G

DirPaths == UNION {[1..k -> {"d"}] : k \in 0..MaxDepth}

IdleGit ==
    /\ git_pc = "idle"
    /\ spec_path = <<>> /\ git_dirs = {} /\ repo_root = <<>>
    /\ issued = <<>> /\ log_run = TimedOut /\ info = EmptyInfo

InitGitCall ==
    /\ git_pc = "walk"
    /\ spec_path \in DirPaths
    /\ git_dirs \in SUBSET Ancestors(spec_path)
    /\ repo_root = spec_path
    /\ issued = <<>> /\ log_run = TimedOut /\ info = EmptyInfo

\* lines 63-66: one test of the while condition and one pass of its body
GitWalk ==
    /\ git_pc = "walk"
    /\ IF repo_root # Parent(repo_root)
       THEN IF MarkerAt(git_dirs, repo_root)
            THEN git_pc' = "check" /\ repo_root' = repo_root
            ELSE git_pc' = "walk" /\ repo_root' = Parent(repo_root)
       ELSE git_pc' = "check" /\ repo_root' = repo_root
    /\ UNCHANGED <<spec_path, git_dirs, issued, log_run, info, cmdVars, scanVars, repVars>>

\* line 68, and line 76 when there is no repository
GitCheck ==
    /\ git_pc = "check"
    /\ git_pc' = IF MarkerAt(git_dirs, repo_root) THEN "branch" ELSE "done"
    /\ UNCHANGED <<spec_path, git_dirs, repo_root, issued, log_run, info,
                   cmdVars, scanVars, repVars>>

\* line 69
GitBranch ==
    /\ git_pc = "branch"
    /\ \E o \in BranchRuns :
        info' = [info EXCEPT !.set = TRUE, !.branch = BranchField(o)]
    /\ issued' = Append(issued, [cmd |-> "rev-parse", cwd |-> repo_root])
    /\ git_pc' = "log"
    /\ UNCHANGED <<spec_path, git_dirs, repo_root, log_run, cmdVars, scanVars, repVars>>

\* lines 70-73
GitLog ==
    /\ git_pc = "log"
    /\ \E o \in GitLogRuns :
        /\ log_run' = o
        /\ info' = [info EXCEPT !.recent_commits = CommitsField(o)]
    /\ issued' = Append(issued, [cmd |-> "log", cwd |-> repo_root])
    /\ git_pc' = "status"
    /\ UNCHANGED <<spec_path, git_dirs, repo_root, cmdVars, scanVars, repVars>>

\* lines 74 and 76
GitStatus ==
    /\ git_pc = "status"
    /\ \E o \in StatusRuns : info' = [info EXCEPT !.status = StatusField(o)]
    /\ issued' = Append(issued, [cmd |-> "status", cwd |-> repo_root])
    /\ git_pc' = "done"
    /\ UNCHANGED <<spec_path, git_dirs, repo_root, log_run, cmdVars, scanVars, repVars>>

----------------------------------------------------------------------------
(* The progress file and get_ralph_status *)

\* A JSON value as json.load returns it; "missing" stands for a key the
\* object does not have.
JMissing == [t |-> "missing", s |-> "", n |-> 0, l |-> <<>>]
JNull == [t |-> "null", s |-> "", n |-> 0, l |-> <<>>]
JStr(x) == [t |-> "str", s |-> x, n |-> 0, l |-> <<>>]
JNum(x) == [t |-> "num", s |-> "", n |-> x, l |-> <<>>]
JList(x) == [t |-> "list", s |-> "", n |-> 0, l |-> x]

\* a JSON object: the six keys format_report reads, and whether it has others
Fields(st, cur, comp, fail, reason, upd, other) ==
    [status |-> st, current_task |-> cur, completed_tasks |-> comp,
     failed_tasks |-> fail, blocked_reason |-> reason, last_updated |-> upd,
     other |-> other]

NoFields == Fields(JMissing, JMissing, JMissing, JMissing, JMissing, JMissing, FALSE)

\* a whole document
Doc(v) == [t |-> v.t, s |-> v.s, n |-> v.n, l |-> v.l, o |-> NoFields]
Obj(f) == [t |-> "obj", s |-> "", n |-> 0, l |-> <<>>, o |-> f]

\* Python's None, which is also what json.load makes of null
None == Doc(JNull)

\* .ralph/progress.json: not there, there but open() fails, there but no
\* JSON, or a JSON document
FileAbsent == [state |-> "absent", doc |-> None]
FileUnreadable == [state |-> "unreadable", doc |-> None]
FileInvalid == [state |-> "invalid", doc |-> None]
FileJson(d) == [state |-> "json", doc |-> d]

\* lines 33-43
GetRalphStatus(f) == IF f.state = "json" THEN f.doc ELSE None

Stamp == "2024-01-01T00:00:00Z"

\* the progress records of the model; the second is the spec's scenario
ProgressRecords ==
    { NoFields,
      Fields(JStr("blocked"), JStr("t3"), JList(<<"t1", "t2">>), JMissing,
             JStr("awaiting approval"), JStr(Stamp), FALSE),
      Fields(JStr("in-progress"), JStr("t3"), JList(<<>>), JList(<<"t8", "t9">>),
             JStr("stale"), JStr(Stamp), TRUE) }

\* objects whose task lists are no lists
IllShapedRecords ==
    { Fields(JStr("done"), JStr("t3"), JNum(5), JMissing, JMissing, JMissing, FALSE),
      Fields(JStr("done"), JStr("t3"), JNull, JMissing, JMissing, JMissing, FALSE),
      Fields(JStr("done"), JStr("t3"), JList(<<"t1">>), JNum(7), JMissing, JMissing, FALSE) }

ProgressFiles ==
    {FileAbsent, FileUnreadable, FileInvalid}
        \cup {FileJson(Doc(v)) : v \in {JNull, JList(<<"t1">>)}}
        \cup {FileJson(Obj(f)) : f \in ProgressRecords \cup IllShapedRecords}

----------------------------------------------------------------------------
(* Python values in format_report *)

Digits == <<"1", "2", "3", "4", "5", "6", "7", "8", "9", "10", "11", "12">>

\* str() of a small natural number
Num(k) == IF k = 0 THEN "0" ELSE Digits[k]

\* the characters of a token sequence
RECURSIVE Join(_)
Join(s) == IF s = <<>> THEN "" ELSE Head(s) \o Join(Tail(s))

RECURSIVE ReprItems(_)
ReprItems(l) ==
    IF l = <<>> THEN ""
    ELSE "'" \o Head(l) \o "'" \o (IF Len(l) > 1 THEN ", " ELSE "") \o ReprItems(Tail(l))

\* what an f-string makes of a JSON value
PyStr(v) ==
    CASE v.t = "str" -> v.s
      [] v.t = "num" -> Num(v.n)
      [] v.t = "list" -> "[" \o ReprItems(v.l) \o "]"
      [] OTHER -> "None"

\* bool() of a value of an object
TruthyVal(v) ==
    CASE v.t = "str" -> v.s # ""
      [] v.t = "num" -> v.n # 0
      [] v.t = "list" -> v.l # <<>>
      [] OTHER -> FALSE

\* bool() of a document: an object is true when it has a key
TruthyDoc(d) ==
    IF d.t = "obj"
    THEN d.o.other \/ \E k \in DOMAIN d.o \ {"other"} : d.o[k].t # "missing"
    ELSE TruthyVal(d)

\* line 153: 'if ralph_status'
HasStatus(d) == TruthyDoc(d)

\* dict.get(key, default)
Get(v, default) == IF v.t = "missing" THEN default ELSE v

\* dict.get(key)
GetOrNone(v) == Get(v, JNull)

\* len() is defined for a list and a str, and raises TypeError otherwise
HasLen(v) == v.t \in {"list", "str"}
PyLen(v) == IF v.t = "list" THEN Len(v.l) ELSE Len(v.s)

\* a line of the report: its text, and the statement that appended it
L(tag, text) == [tag |-> tag, text |-> text]

\* lines 153-166: whether building the progress summary raises
\* (AttributeError for a value without .get, TypeError for a len())
ProgressRaises(d) ==
    /\ HasStatus(d)
    /\ \/ d.t # "obj"
       \/ ~HasLen(Get(d.o.completed_tasks, JList(<<>>)))
       \/ TruthyVal(GetOrNone(d.o.failed_tasks)) /\ ~HasLen(d.o.failed_tasks)

\* lines 153-166 (in the constant text of the lines the emoji are left out
\* and a backquote is written as an apostrophe)
ProgressLines(d) ==
    IF ~HasStatus(d) THEN <<>>
    ELSE
      <<L("progress", "\n**Ralph Progress:**"),
        L("status", "- Status: '" \o PyStr(Get(d.o.status, JStr("unknown"))) \o "'"),
        L("current", "- Current Task: '" \o PyStr(Get(d.o.current_task, JStr("none"))) \o "'"),
        L("completed", "- Completed: "
            \o Num(PyLen(Get(d.o.completed_tasks, JList(<<>>)))) \o " tasks")>>
      \o (IF GetOrNone(d.o.status) = JStr("blocked")
          THEN <<L("blocked", "- BLOCKED: "
                    \o PyStr(Get(d.o.blocked_reason, JStr("unknown"))))>>
          ELSE <<>>)
      \o (IF TruthyVal(GetOrNone(d.o.failed_tasks))
          THEN <<L("failed", "- Failed Tasks: " \o Num(PyLen(d.o.failed_tasks)))>>
          ELSE <<>>)
      \o <<L("updated", "- Last Updated: '"
                \o PyStr(Get(d.o.last_updated, JStr("never"))) \o "'")>>

----------------------------------------------------------------------------
(* get_session_log *)

\* the [-10:] of line 53 and the [-5:] of line 172
TailRead == 10
TailShown == 5

LastN(s, k) == IF Len(s) <= k THEN s ELSE SubSeq(s, Len(s) - k + 1, Len(s))

LogEntry(k) == <<"entry", " ", Num(k), "\n">>
LogFile(k) == [state |-> "text", lines |-> [j \in 1..k |-> LogEntry(j)]]
LogAbsent == [state |-> "absent", lines |-> <<>>]
LogUnreadable == [state |-> "unreadable", lines |-> <<>>]

LogFiles == {LogAbsent, LogUnreadable, LogFile(12)}

\* lines 45-55
GetSessionLog(f) == IF f.state = "text" THEN LastN(f.lines, TailRead) ELSE <<>>

\* lines 169-173
SessionLines(log, v) ==
    IF log # <<>> /\ v
    THEN <<L("session", "\n**Recent Session Activity:**")>>
            \o [k \in 1..Len(LastN(log, TailShown)) |->
                    L("logline", "  " \o Join(RStrip(LastN(log, TailShown)[k])))]
    ELSE <<>>

----------------------------------------------------------------------------
(* The git, resource and system probes as format_report uses them *)

\* lines 57-76 for a spec directory with (repo) or without a repository
\* at or above it
GetGitInfo(repo, b, l, s) ==
    IF repo
    THEN [set |-> TRUE, branch |-> BranchField(b),
          recent_commits |-> CommitsField(l), status |-> StatusField(s)]
    ELSE EmptyInfo

\* lines 183-185
RECURSIVE CommitItems(_)
CommitItems(cs) ==
    IF cs = <<>> THEN <<>>
    ELSE (IF Strip(Head(cs)) # <<>>
          THEN <<L("commit", "  - " \o Join(RStrip(Head(cs))))>>
          ELSE <<>>) \o CommitItems(Tail(cs))

FirstN(s, k) == IF Len(s) <= k THEN s ELSE SubSeq(s, 1, k)

\* the [:3] of line 183
CommitsShown == 3

\* lines 177-187
GitLines(g) ==
    IF ~g.set THEN <<>>
    ELSE
      <<L("git", "\n**Git Status:**")>>
      \o (IF g.branch # <<>>
          THEN <<L("branch", "- Branch: '" \o Join(g.branch) \o "'")>> ELSE <<>>)
      \o (IF g.recent_commits # <<>>
          THEN <<L("commits", "- Recent Commits:")>>
                  \o CommitItems(FirstN(g.recent_commits, CommitsShown))
          ELSE <<>>)
      \o (IF g.status # <<>>
          THEN <<L("changes", "- Uncommitted Changes:\n'''\n" \o Join(g.status) \o "\n'''")>>
          ELSE <<>>)

\* the repositories format_report meets: none, or one whose three commands
\* did b, l and s
GitCases ==
    { [repo |-> FALSE, b |-> TimedOut, l |-> TimedOut, s |-> TimedOut],
      [repo |-> TRUE, b |-> Completed(0, <<"main", "\n">>),
       l |-> Completed(128, <<>>), s |-> Completed(0, <<"M", " ", "f.py", "\n">>)] }

\* str.split(): the words between runs of whitespace
RECURSIVE Split(_)
Split(s) ==
    LET t == LStrip(s)
    IN IF t = <<>> THEN <<>>
       ELSE LET k == CHOOSE j \in 1..Len(t) :
                       /\ \A h \in 1..j : t[h] \notin Whitespace
                       /\ j = Len(t) \/ t[j + 1] \in Whitespace
            IN <<Join(SubSeq(t, 1, k))>> \o Split(SubSeq(t, k + 1, Len(t)))

\* an entry of the services directory, and what du -sh did on its
\* node_modules
Service(name, isdir, nm, du) == [name |-> name, is_dir |-> isdir, nm |-> nm, du |-> du]

DuRuns ==
    { Completed(0, <<"4.0K", "\t", "/ws/services/api/node_modules", "\n">>),
      Completed(1, <<>>),
      TimedOut }

\* the services directory is absent (FALSE) or holds the entries listed
ServicesDirs ==
    { [exists |-> FALSE, entries |-> <<>>] }
    \cup { [exists |-> TRUE,
            entries |-> <<Service("docs", TRUE, FALSE, TimedOut),
                          Service("api", TRUE, TRUE, o)>>] : o \in DuRuns }

Measured(e) == e.is_dir /\ e.nm

\* line 89: run_cmd(...).split()[0] raises IndexError when there is no word
DuRaises(o) == Split(RunCmd(o)) = <<>>
DuSize(o) == Split(RunCmd(o))[1]

\* lines 85-90: the loop stops at the first entry whose size query raises
RECURSIVE ResourceRaises(_)
ResourceRaises(es) ==
    /\ es # <<>>
    /\ \/ Measured(Head(es)) /\ DuRaises(Head(es).du)
       \/ ResourceRaises(Tail(es))

RECURSIVE ResourceItems(_)
ResourceItems(es) ==
    IF es = <<>> THEN <<>>
    ELSE (IF Measured(Head(es))
          THEN <<[service |-> Head(es).name, size |-> DuSize(Head(es).du)]>>
          ELSE <<>>) \o ResourceItems(Tail(es))

\* lines 78-92, for a call that does not raise
GetResourceUsage(sv) == IF sv.exists THEN ResourceItems(sv.entries) ELSE <<>>

\* lines 191-194
ResourceLines(rs, v) ==
    IF rs # <<>> /\ v
    THEN <<L("disk", "\n**Disk Usage:**")>>
            \o [k \in 1..Len(rs) |-> L("usage", "- " \o rs[k].service \o ": " \o rs[k].size)]
    ELSE <<>>

\* the tokens of the model that begin with "["
BracketTokens == {"[timeout]", "[error:"}

\* str.startswith("[")
StartsWithBracket(r) == r # <<>> /\ r[1] \in BracketTokens

DockerRuns ==
    { Completed(0, <<"NAMES", "\t", "STATUS", "\n", "db", "\t", "Up", "\n">>),
      Completed(127, <<>>) }

\* lines 94-105
CheckDockerStatus(o) ==
    IF RunCmd(o) # <<>> /\ ~StartsWithBracket(RunCmd(o))
    THEN Join(RunCmd(o))
    ELSE "Docker not available or not running"

WhichRuns == {Completed(0, <<"/usr/bin/timeout", "\n">>), Completed(1, <<>>)}

\* lines 107-117: the two runs of `which timeout`
CheckSystemDeps(o1, o2) == [available |-> RunCmd(o1) # <<>>, path |-> RunCmd(o2)]

\* lines 198-202
DockerLines(text) ==
    <<L("diag", "\n## System Diagnostics"),
      L("docker", "\n**Docker Status:**"),
      L("containers", "'''\n" \o text \o "\n'''")>>

\* lines 205-210
DepsLines(dep) ==
    <<L("deps", "\n**System Dependencies:**"),
      L("dep", "- timeout: " \o (IF dep.available THEN "Available" ELSE "Missing"))>>
    \o (IF dep.path # <<>>
        THEN <<L("path", "  Path: '" \o Join(dep.path) \o "'")>> ELSE <<>>)

----------------------------------------------------------------------------
(* format_report *)

\* datetime.now().strftime('%Y-%m-%d %H:%M:%S') at second t
TimeStr(t) == "2026-01-01 00:00:0" \o Num(t)

\* lines 135-140 with the timestamp on the title line as well
HeaderLinesStamped(t) ==
    <<L("title", "# Ralph Workspace Spec Checkup " \o TimeStr(t)),
      L("generated", "\n**Generated:** " \o TimeStr(t)),
      L("host", "**Host:** vm"),
      L("python", "**Python:** 3.11.6")>>

\* lines 135-140
HeaderLines(t) ==
    <<L("title", "# Ralph Workspace Spec Checkup"),
      L("generated", "\n**Generated:** " \o TimeStr(t)),
      L("host", "**Host:** vm"),
      L("python", "**Python:** 3.11.6")>>

\* line 142 without the test
NoSpecsNever(s) == FALSE

\* line 142: `if not specs`
NoSpecs(s) == s = <<>>

\* lines 143 and 146
CountLines(s) ==
    IF NoSpecs(s)
    THEN <<L("warning", "\nNo Ralph specs found in workspace")>>
    ELSE <<L("count", "\n## Found " \o Num(Len(s)) \o " Ralph Spec(s)")>>

\* line 149: the spec directories are <workspace>/specs/<name>
SubsectionTitle(name) == L("spec", "\n### ws/specs/" \o name)

SpecNames == <<"a", "b", "c", "d">>

IdleReport ==
    /\ pc = "idle"
    /\ specs = <<>> /\ verbose = FALSE /\ i = 0
    /\ now = 0 /\ nowB = 0 /\ lines = <<>> /\ linesB = <<>>
    /\ progress_file = FileAbsent /\ ralph_status = None
    /\ docker_checks = 0 /\ deps_checks = 0 /\ raised_in = "nowhere"

\* format_report(specs, verbose) is called at second `now`; linesB is the
\* list `lines` of a second call with the same arguments that is made at
\* second nowB and whose probes find what those of the first call find.
InitReport ==
    /\ pc = "start"
    /\ specs \in {SubSeq(SpecNames, 1, k) : k \in 0..MaxSpecs}
    /\ verbose \in BOOLEAN
    /\ i = 0
    /\ now = 0 /\ nowB \in now..MaxTick
    /\ lines = <<>> /\ linesB = <<>>
    /\ progress_file = FileAbsent /\ ralph_status = None
    /\ docker_checks = 0 /\ deps_checks = 0 /\ raised_in = "nowhere"

\* where the for loop of line 148 goes with k specs behind it: the next
\* spec, or line 197 and after it the system probes or the return
AfterSpecs(k) ==
    IF k < Len(specs) THEN "progress" ELSE IF verbose THEN "docker" ELSE "done"

\* lines 135-146
ReportStart ==
    /\ pc = "start"
    /\ lines' = HeaderLines(now) \o CountLines(specs)
    /\ linesB' = HeaderLines(nowB) \o CountLines(specs)
    /\ pc' = IF NoSpecs(specs) THEN "done" ELSE AfterSpecs(0)
    /\ i' = IF NoSpecs(specs) \/ specs = <<>> THEN i ELSE 1
    /\ UNCHANGED <<specs, verbose, now, nowB, progress_file, ralph_status,
                   docker_checks, deps_checks, raised_in, cmdVars, scanVars, gitVars>>

\* lines 149-166: the subsection title, get_ralph_status, the progress
\* summary; an exception raised here leaves format_report
ReportProgress ==
    /\ pc = "progress"
    /\ \E f \in ProgressFiles :
        /\ progress_file' = f
        /\ ralph_status' = GetRalphStatus(f)
        /\ IF ProgressRaises(GetRalphStatus(f))
           THEN /\ pc' = "raised" /\ raised_in' = "format_report"
                /\ UNCHANGED <<lines, linesB>>
           ELSE /\ pc' = "session" /\ raised_in' = raised_in
                /\ lines' = lines \o <<SubsectionTitle(specs[i])>>
                                  \o ProgressLines(GetRalphStatus(f))
                /\ linesB' = linesB \o <<SubsectionTitle(specs[i])>>
                                    \o ProgressLines(GetRalphStatus(f))
    /\ UNCHANGED <<specs, verbose, i, now, nowB, docker_checks, deps_checks,
                   cmdVars, scanVars, gitVars>>

\* lines 168-173
ReportSession ==
    /\ pc = "session"
    /\ \E f \in LogFiles :
        /\ lines' = lines \o SessionLines(GetSessionLog(f), verbose)
        /\ linesB' = linesB \o SessionLines(GetSessionLog(f), verbose)
    /\ pc' = "git"
    /\ UNCHANGED <<specs, verbose, i, now, nowB, progress_file, ralph_status,
                   docker_checks, deps_checks, raised_in, cmdVars, scanVars, gitVars>>

\* lines 175-187
ReportGit ==
    /\ pc = "git"
    /\ \E g \in GitCases :
        /\ lines' = lines \o GitLines(GetGitInfo(g.repo, g.b, g.l, g.s))
        /\ linesB' = linesB \o GitLines(GetGitInfo(g.repo, g.b, g.l, g.s))
    /\ pc' = "resources"
    /\ UNCHANGED <<specs, verbose, i, now, nowB, progress_file, ralph_status,
                   docker_checks, deps_checks, raised_in, cmdVars, scanVars, gitVars>>

\* lines 189-194 and the step of the loop; an IndexError raised in
\* get_resource_usage leaves format_report. Nothing reads ralph_status
\* again before line 152 assigns it anew: it is reset here, with the file
\* it came from, so that states differing only in it are one.
ReportResources ==
    /\ pc = "resources"
    /\ \E sv \in ServicesDirs :
        IF sv.exists /\ ResourceRaises(sv.entries)
        THEN /\ pc' = "raised" /\ raised_in' = "get_resource_usage"
             /\ UNCHANGED <<lines, linesB, i, progress_file, ralph_status>>
        ELSE /\ lines' = lines \o ResourceLines(GetResourceUsage(sv), verbose)
             /\ linesB' = linesB \o ResourceLines(GetResourceUsage(sv), verbose)
             /\ pc' = AfterSpecs(i) /\ raised_in' = raised_in
             /\ i' = IF i < Len(specs) THEN i + 1 ELSE i
             /\ progress_file' = FileAbsent /\ ralph_status' = None
    /\ UNCHANGED <<specs, verbose, now, nowB, docker_checks, deps_checks,
                   cmdVars, scanVars, gitVars>>

\* lines 197-202
ReportDocker ==
    /\ pc = "docker"
    /\ \E o \in DockerRuns :
        /\ lines' = lines \o DockerLines(CheckDockerStatus(o))
        /\ linesB' = linesB \o DockerLines(CheckDockerStatus(o))
    /\ docker_checks' = docker_checks + 1
    /\ pc' = "deps"
    /\ UNCHANGED <<specs, verbose, i, now, nowB, progress_file, ralph_status,
                   deps_checks, raised_in, cmdVars, scanVars, gitVars>>

\* lines 204-212
ReportDeps ==
    /\ pc = "deps"
    /\ \E o1 \in WhichRuns, o2 \in WhichRuns :
        /\ lines' = lines \o DepsLines(CheckSystemDeps(o1, o2))
        /\ linesB' = linesB \o DepsLines(CheckSystemDeps(o1, o2))
    /\ deps_checks' = deps_checks + 1
    /\ pc' = "done"
    /\ UNCHANGED <<specs, verbose, i, now, nowB, progress_file, ralph_status,
                   docker_checks, raised_in, cmdVars, scanVars, gitVars>>

----------------------------------------------------------------------------
(* Specifications *)

\* one call of run_cmd
InitCmd == InitCmdCall /\ IdleScan /\ IdleGit /\ IdleReport
NextCmd == RunCmdCall
SpecCmd == InitCmd /\ [][NextCmd]_vars

\* scan_specs on a workspace nothing else touches
InitTree == InitScan /\ IdleCmd /\ IdleGit /\ IdleReport
NextScan ==
    \/ RglobYield
    \/ ScanReturn
    \/ ItemIsDir
    \/ ItemIterdir
    \/ InspectChild
    \/ IterdirDone
SpecScan == InitTree /\ [][NextScan]_vars

\* scan_specs while another process deletes entries
NextRace == NextScan \/ Delete
SpecRace == InitTree /\ [][NextRace]_vars

\* get_git_info; a call that has started runs on to its return
InitGit == InitGitCall /\ IdleCmd /\ IdleScan /\ IdleReport
NextGit ==
    \/ GitWalk
    \/ GitCheck
    \/ GitBranch
    \/ GitLog
    \/ GitStatus
SpecGit == InitGit /\ [][NextGit]_vars /\ WF_vars(NextGit)

\* format_report
InitRep == InitReport /\ IdleCmd /\ IdleScan /\ IdleGit
NextRep ==
    \/ ReportStart
    \/ ReportProgress
    \/ ReportSession
    \/ ReportGit
    \/ ReportResources
    \/ ReportDocker
    \/ ReportDeps
SpecReport == InitRep /\ [][NextRep]_vars

----------------------------------------------------------------------------
(* C4 *)

Failed(o) == o.kind = "oserror" \/ (o.kind = "completed" /\ o.exit # 0)
Succeeded(o) == o.kind = "completed" /\ o.exit = 0
IsErrorSentinel(r) == r # <<>> /\ r[1] = "[error:"

\* C4 as stated: every failure other than a timeout (a non-zero exit status,
\* a missing binary, an OS error) yields an "[error: ...]" sentinel that no
\* successful command yields, and the trimmed standard output is returned
\* only for a command that succeeded.
C4_AsStated ==
    cmd_pc = "returned" =>
        /\ Failed(outcome) =>
            /\ IsErrorSentinel(cmd_result)
            /\ \A o \in CmdOutcomes : Succeeded(o) => RunCmd(o) # cmd_result
        /\ cmd_result = Strip(outcome.stdout) /\ outcome.kind = "completed"
               => Succeeded(outcome)

\* r is s without its leading and trailing whitespace
IsTrimOf(r, s) ==
    /\ r = <<>> \/ (r[1] \notin Whitespace /\ r[Len(r)] \notin Whitespace)
    /\ \E a \in 0..Len(s) : \E b \in a..Len(s) :
        /\ r = SubSeq(s, a + 1, b)
        /\ \A k \in (1..a) \cup ((b + 1)..Len(s)) : s[k] \in Whitespace

\* C4, amended: run_cmd returns the "[error: <description>]" sentinel exactly
\* when running the command raised something other than a timeout; for a
\* command the shell ran to the end it returns the trimmed standard output
\* whatever the exit status.
C4_Amended ==
    cmd_pc = "returned" =>
        /\ outcome.kind = "oserror" =>
            /\ IsErrorSentinel(cmd_result)
            /\ cmd_result = ErrorSentinel(outcome.err)
        /\ outcome.kind = "timeout" => cmd_result = TimeoutSentinel
        /\ outcome.kind = "completed" => IsTrimOf(cmd_result, outcome.stdout)

\* a command that exited non-zero with padded output has been run
C4_Witness ==
    /\ cmd_pc = "returned"
    /\ outcome.kind = "completed" /\ outcome.exit = 127
    /\ outcome.stdout = <<" ", "ok", "\n">>
    /\ cmd_result = <<"ok">>

----------------------------------------------------------------------------
(* C1, C5 *)

Range(s) == {s[k] : k \in 1..Len(s)}

\* an immediate child of a directory named "specs" that holds the marker
\* subdirectory
Qualifies(t, p) ==
    /\ Len(p) >= 2
    /\ Name(Parent(p)) = "specs" /\ IsDir(t, Parent(p))
    /\ IsDir(t, p)
    /\ HasMarkerDir(t, p)

NoRepeats(s) == \A j, k \in 1..Len(s) : j # k => s[j] # s[k]
Ascending(s) == \A j, k \in 1..Len(s) : j < k => PathLess(s[j], s[k])

\* C1 as stated: scan_specs returns exactly the directories that are an
\* immediate child of a directory named "specs" and contain the marker
\* subdirectory ".ralph", none repeated, in ascending path order.
C1_ExactlyMarkedDirs ==
    scan_pc = "done" =>
        /\ \A p \in TreePaths : p \in Range(scan_result) <=> Qualifies(fs, p)
        /\ NoRepeats(scan_result)
        /\ Ascending(scan_result)

\* C5 as stated: whatever another process deletes during the scan,
\* scan_specs does not fail, and what it returns are directories under a
\* "specs" directory, in order.
C5_DeletionTolerated ==
    /\ scan_pc # "raised"
    /\ scan_pc = "done" =>
        /\ \A p \in Range(scan_result) : Len(p) >= 2 /\ Name(Parent(p)) = "specs"
        /\ Ascending(scan_result)
----------------------------------------------------------------------------
(* C9, C10 *)

MarkedAncestors == git_dirs \cap Ancestors(spec_path)

\* the nearest of the spec directory and its ancestors that holds ".git"
Nearest == CHOOSE q \in MarkedAncestors : \A r \in MarkedAncestors : Len(r) <= Len(q)

\* C9: the upward search of get_git_info ends, having gone up at most once
\* per path component; it selects the nearest directory among the spec
\* directory and its ancestors, the root included, that contains ".git" and
\* runs the commands there; with no such directory it returns an empty
\* result and issues no command.
C9_WalkEndsAtNearest ==
    /\ [](Len(repo_root) <= Len(spec_path))
    /\ [](git_pc \in {"check", "branch", "log", "status", "done"} =>
            IF MarkedAncestors = {}
            THEN repo_root = <<>> /\ issued = <<>> /\ info = EmptyInfo
            ELSE /\ repo_root = Nearest
                 /\ \A k \in 1..Len(issued) : issued[k].cwd = Nearest
                 /\ git_pc = "done" => Len(issued) = 3 /\ info.set)
    /\ <>(git_pc = "done")

\* a repository found two levels above the spec directory, all three
\* commands issued
C9_Witness ==
    /\ git_pc = "done"
    /\ Len(spec_path) = 3 /\ repo_root = <<"d">>
    /\ Len(issued) = 3

LogQueryFailed(o) == o.kind # "completed" \/ o.exit # 0

\* C10 as stated: when a repository root is found and the recent-commits
\* query fails in any way (git error, timeout, execution error), the
\* recent-commits field is the placeholder "no commits"; otherwise it holds
\* at most 5 one-line summaries.
C10_PlaceholderOnAnyFailure ==
    git_pc \in {"status", "done"} /\ info.set =>
        IF LogQueryFailed(log_run)
        THEN info.recent_commits = <<NoCommits>>
        ELSE Len(info.recent_commits) <= LogLimit

----------------------------------------------------------------------------
(* C2, C3, C6, C7, C8 *)

Tags(ls) == [k \in 1..Len(ls) |-> ls[k].tag]
CountTag(ls, tag) == Cardinality({k \in 1..Len(ls) : ls[k].tag = tag})

\* the subsection of the spec in hand: the lines after its title
Subsection ==
    LET t == CHOOSE k \in 1..Len(lines) :
                 lines[k].tag = "spec" /\ \A j \in (k + 1)..Len(lines) : lines[j].tag # "spec"
    IN SubSeq(lines, t + 1, Len(lines))

ListOrMissing(v) == v.t \in {"list", "missing"}
StrOrMissing(v) == v.t \in {"str", "missing"}

\* a JSON object whose fields, where present, have the types of a progress
\* record
IsProgressRecord(d) ==
    /\ d.t = "obj"
    /\ StrOrMissing(d.o.status) /\ StrOrMissing(d.o.current_task)
    /\ ListOrMissing(d.o.completed_tasks) /\ ListOrMissing(d.o.failed_tasks)
    /\ StrOrMissing(d.o.blocked_reason) /\ StrOrMissing(d.o.last_updated)

\* absent, unreadable, no JSON, or JSON of another shape than a record
Malformed(f) == f.state # "json" \/ ~IsProgressRecord(f.doc)

\* C2 as stated: for a progress file that is absent, unreadable or malformed
\* in any way (no JSON, a non-object value, a task list that is no
\* sequence) get_ralph_status yields None and no exception leaves the
\* building of the spec's subsection.
C2_MalformedIsAbsent ==
    Malformed(progress_file) =>
        /\ ralph_status = None
        /\ ~(pc = "raised" /\ raised_in = "format_report")

\* C3 as stated: whatever the commands of the probes do, format_report runs
\* to completion with a subsection for every spec; in particular no
\* disk-usage query aborts it from get_resource_usage.
C3_NoCommandAborts ==
    /\ ~(pc = "raised" /\ raised_in = "get_resource_usage")
    /\ pc = "done" => CountTag(lines, "spec") = Len(specs)

DiagTags == {"diag", "docker", "containers", "deps", "dep", "path"}

\* the diagnostics, and nothing else, end the report
DiagnosticsLast ==
    \E k \in 1..Len(lines) :
        /\ lines[k].tag = "diag"
        /\ \A j \in 1..Len(lines) : lines[j].tag \in DiagTags <=> j >= k
        /\ CountTag(lines, "docker") = 1 /\ CountTag(lines, "deps") = 1

\* C6 as stated: in every run with verbose, whatever the number of specs
\* (zero included), check_docker_status and check_system_deps are each run
\* exactly once, after all subsections, and their subsection ends the
\* report; without verbose they are not run.
C6_OncePerVerboseRun ==
    pc = "done" =>
        IF verbose
        THEN docker_checks = 1 /\ deps_checks = 1 /\ DiagnosticsLast
        ELSE docker_checks = 0 /\ deps_checks = 0

\* C6, amended: the two probes are never run more than once each, never
\* without verbose, never when no spec was given, and never before the
\* subsections of all specs are built; a run with verbose and at least one
\* spec that returns has run each exactly once and ends the report with
\* their subsection.
C6_OnceAfterAllSpecs ==
    /\ docker_checks <= 1 /\ deps_checks <= docker_checks
    /\ (~verbose \/ specs = <<>>) =>
            docker_checks = 0 /\ CountTag(lines, "diag") = 0
    /\ docker_checks > 0 =>
            i = Len(specs) /\ CountTag(lines, "spec") = Len(specs)
    /\ (pc = "done" /\ verbose /\ specs # <<>>) =>
            docker_checks = 1 /\ deps_checks = 1 /\ DiagnosticsLast

\* a verbose report over two specs has returned
C6_Witness ==
    /\ pc = "done" /\ verbose /\ Len(specs) = 2
    /\ docker_checks = 1 /\ deps_checks = 1
    /\ CountTag(lines, "spec") = 2

ExpectedSummary(d) ==
    <<"progress", "status", "current", "completed">>
    \o (IF d.o.status = JStr("blocked") THEN <<"blocked">> ELSE <<>>)
    \o (IF d.o.failed_tasks.t = "list" /\ d.o.failed_tasks.l # <<>>
        THEN <<"failed">> ELSE <<>>)
    \o <<"updated">>

\* C8 as stated: for a progress file that parses as a progress record the
\* subsection holds the summary (status, current task, completed count,
\* last updated, in that order), with the blocked line iff status is
\* "blocked" and the failed count iff there are failed tasks; the summary is
\* left out only when the progress state is absent.
C8_SummaryForEveryRecord ==
    pc = "session" =>
        /\ (progress_file.state = "json" /\ IsProgressRecord(progress_file.doc))
                => Tags(Subsection) = ExpectedSummary(progress_file.doc)
        /\ Subsection = <<>> => ralph_status = None

====
